---- MODULE Spec2Model ----
(***************************************************************************)
(* Model of the native rules engine of the Satellites hex game            *)
(* (src/native/satellites_native/src/lib.rs): the board topology, the     *)
(* legal-action enumerator, and the turn state machine of NativeSatGame.  *)
(***************************************************************************)
EXTENDS Integers, Sequences, FiniteSets, TLC

VARIABLES
    game,             \* the NativeSatGame instance (a record of its fields), "none" before it exists
    max_move_amount,  \* the max_move_amount the caller passes to every call
    last              \* the last call made on the instance and what it returned

vars == <<game, max_move_amount, last>>

(***************************************************************************)
(* Program constants                                                       *)
(***************************************************************************)
U8_MAX == 255
ARMY_CAP == 20
WIN_SCORE == 9
NUM_SATS == 6
ADD_BASE == 8

\* state_code
GAME_OVER == 0
CHOOSE_SATELLITE == 1
CHOOSE_DIRECTION == 2
PERFORM_ACTIONS == 3

\* action_type_code
ADD_TANK == 1
ADD_BOT == 2
MOVE_TANK == 3
MOVE_BOT == 4

\* unit_kind
BOT == 1
TANK == 2

Min(a, b) == IF a <= b THEN a ELSE b
Max(a, b) == IF a >= b THEN a ELSE b
saturating_add(x, y) == Min(x + y, U8_MAX)
Range(s) == {s[i] : i \in DOMAIN s}
ArrLen(a) == Cardinality(DOMAIN a)

(***************************************************************************)
(* Board topology: neighbors_by_cell_id                                    *)
(***************************************************************************)
row_widths == <<8, 9, 10, 11, 12, 11, 10, 9, 8>>
row_offsets == <<0, 8, 17, 27, 38, 50, 61, 71, 80>>

\* row_widths.iter().sum()
width_sum[r \in 0..Len(row_widths)] ==
    IF r = 0 THEN 0 ELSE width_sum[r - 1] + row_widths[r]

num_cells == width_sum[Len(row_widths)]

\* The six candidate (row, column) pairs of cell (r, c), in the code's order.
Candidates(r, c) ==
    << <<r, c - 1>>,
       <<r, c + 1>>,
       IF r > 0 THEN (IF r <= 4 THEN <<r - 1, c - 1>> ELSE <<r - 1, c>>) ELSE <<-1, -1>>,
       IF r > 0 THEN (IF r <= 4 THEN <<r - 1, c>> ELSE <<r - 1, c + 1>>) ELSE <<-1, -1>>,
       IF r < 8 THEN (IF r < 4 THEN <<r + 1, c>> ELSE <<r + 1, c - 1>>) ELSE <<-1, -1>>,
       IF r < 8 THEN (IF r < 4 THEN <<r + 1, c + 1>> ELSE <<r + 1, c>>) ELSE <<-1, -1>> >>

CandidateOnBoard(p) ==
    /\ ~(p[1] < 0 \/ p[1] >= 9)
    /\ ~(p[2] < 0 \/ p[2] >= row_widths[p[1] + 1])

\* out.push(row_offsets[rr] + cc) for the candidates that are kept
CellIdsOf(kept) == [i \in 1..Len(kept) |-> row_offsets[kept[i][1] + 1] + kept[i][2]]

NeighborsOfRC(r, c) == CellIdsOf(SelectSeq(Candidates(r, c), CandidateOnBoard))

RowOfCell(sid) ==
    CHOOSE r \in 0..8 : row_offsets[r + 1] <= sid /\ sid < row_offsets[r + 1] + row_widths[r + 1]

neighbors_by_cell_id ==
    [sid \in 0..(num_cells - 1) |->
        NeighborsOfRC(RowOfCell(sid), sid - row_offsets[RowOfCell(sid) + 1])]

\* The nested loop "for sid .. for eid in neighbors[sid]" with its running
\* counter: edge_base[s] is the counter when the outer loop reaches cell s.
edge_base[s \in 0..num_cells] ==
    IF s = 0 THEN 0 ELSE edge_base[s - 1] + Len(neighbors_by_cell_id[s - 1])

\* neighbors.iter().map(|v| v.len()).sum()
num_edges == edge_base[num_cells]

\* Element k+1 is the directed edge the nested loop visits with counter k.
EdgeOf(s, k) == [sid |-> s, eid |-> neighbors_by_cell_id[s][k - edge_base[s]], ord |-> k - 1]

edge_walk ==
    [k \in 1..num_edges |->
        EdgeOf(CHOOSE c \in 0..(num_cells - 1) : edge_base[c] < k /\ k <= edge_base[c + 1], k)]

(***************************************************************************)
(* Legal action enumerator: generate_legal_action_indices_inner            *)
(* The result is [err, out]: err is the PyValueError return, out the       *)
(* vector in the order the code pushes it.                                 *)
(***************************************************************************)
LegalErr == [err |-> TRUE, out |-> <<>>]
LegalOk(seq) == [err |-> FALSE, out |-> seq]

CellIds(n) == [i \in 1..n |-> i - 1]

\* owner_total counting the owned cells, not the units on them
owner_total_of_cells(turn, unit_owner, unit_count) ==
    Cardinality({i \in DOMAIN unit_owner : unit_owner[i] = turn})

owner_total_of(turn, unit_owner, unit_count) ==
    LET RECURSIVE Tot(_)
        Tot(i) == IF i >= ArrLen(unit_owner) THEN 0
                  ELSE (IF unit_owner[i] = turn THEN unit_count[i] ELSE 0) + Tot(i + 1)
    IN  Tot(0)

\* add_tank: one pass over the cells.
add_tank_targets(turn, unit_owner, unit_kind, is_artefact, is_p0_start, is_p1_start) ==
    LET opp_start == IF turn = 0 THEN is_p1_start ELSE is_p0_start
        Pushes(cid) ==
            IF unit_owner[cid] = -1
            THEN ~opp_start[cid] /\ ~is_artefact[cid]
            ELSE unit_owner[cid] = turn /\ unit_kind[cid] = TANK
    IN  SelectSeq(CellIds(ArrLen(unit_owner)), Pushes)

\* add_bot: a pass pushing the own-bot cells, then a pass pushing the empty own start hexes.
add_bot_targets(turn, unit_owner, unit_kind, is_p0_start, is_p1_start) ==
    LET my_start == IF turn = 0 THEN is_p0_start ELSE is_p1_start
        OwnBot(cid) == unit_owner[cid] = turn /\ unit_kind[cid] = BOT
        EmptyStart(cid) == my_start[cid] /\ unit_owner[cid] = -1
        ids == CellIds(ArrLen(unit_owner))
    IN  SelectSeq(ids, OwnBot) \o SelectSeq(ids, EmptyStart)

opp_start_pair(turn) == IF turn = 0 THEN {83, 84} ELSE {3, 4}

\* move_range with ">=" for ">" in the tank-against-tank test
move_range_equal_count(req_kind, turn, src_count, target_owner, target_kind, target_count, target_artefact) ==
    IF req_kind = TANK /\ target_artefact THEN [lo |-> 0, hi |-> 0]
    ELSE IF target_owner = -1 THEN [lo |-> 1, hi |-> src_count]
    ELSE IF target_owner = turn
         THEN (IF target_kind = req_kind THEN [lo |-> 1, hi |-> src_count]
                                         ELSE [lo |-> 0, hi |-> 0])
    ELSE IF req_kind = TANK
         THEN (IF target_kind = BOT THEN [lo |-> 1, hi |-> src_count]
               ELSE IF target_kind = TANK /\ src_count >= target_count
                    THEN [lo |-> target_count, hi |-> src_count]
                    ELSE [lo |-> 0, hi |-> 0])
    ELSE [lo |-> 0, hi |-> 0]

\* [lo, hi] of one directed edge before clamping; lo = 0 means no legal amount.
move_range(req_kind, turn, src_count, target_owner, target_kind, target_count, target_artefact) ==
    IF req_kind = TANK /\ target_artefact THEN [lo |-> 0, hi |-> 0]
    ELSE IF target_owner = -1 THEN [lo |-> 1, hi |-> src_count]
    ELSE IF target_owner = turn
         THEN (IF target_kind = req_kind THEN [lo |-> 1, hi |-> src_count]
                                         ELSE [lo |-> 0, hi |-> 0])
    ELSE IF req_kind = TANK
         THEN (IF target_kind = BOT THEN [lo |-> 1, hi |-> src_count]
               ELSE IF target_kind = TANK /\ src_count > target_count
                    THEN [lo |-> target_count + 1, hi |-> src_count]
                    ELSE [lo |-> 0, hi |-> 0])
    ELSE [lo |-> 0, hi |-> 0]

move_indices(action_type_code, turn, unit_owner, unit_kind, unit_count, is_artefact, max_move_amount_) ==
    LET move_base == ADD_BASE + ArrLen(unit_owner)
        req_kind == IF action_type_code = MOVE_TANK THEN TANK ELSE BOT
        RangeOf(e) == move_range(req_kind, turn, unit_count[e.sid], unit_owner[e.eid],
                                 unit_kind[e.eid], unit_count[e.eid], is_artefact[e.eid])
        Nonempty(range) == range.lo > 0 /\ range.lo <= Min(range.hi, max_move_amount_)
        Emits(e) ==
            /\ unit_owner[e.sid] = turn /\ unit_kind[e.sid] = req_kind /\ unit_count[e.sid] > 0
            /\ e.eid \notin opp_start_pair(turn)
            /\ Nonempty(RangeOf(e))
        \* for amount in lo..=hi.min(max_move): out.push(edge_base + amount - 1)
        PushEdge(e, range) ==
            [j \in 1..(Min(range.hi, max_move_amount_) - range.lo + 1) |->
                move_base + e.ord * max_move_amount_ + ((range.lo + j - 1) - 1)]
        RECURSIVE Push(_, _)
        Push(emitting, k) ==
            IF k > Len(emitting) THEN <<>>
            ELSE PushEdge(emitting[k], RangeOf(emitting[k])) \o Push(emitting, k + 1)
    IN  Push(SelectSeq(edge_walk, Emits), 1)

\* out.push(add_base + cid) for the cells an add may target
add_indices(targets) == [i \in DOMAIN targets |-> ADD_BASE + targets[i]]

generate_legal_action_indices_inner(state_code, action_type_code, turn, sat_charges, unit_owner, unit_kind, unit_count, is_artefact, is_p0_start, is_p1_start, max_move_amount_) ==
    LET n == ArrLen(unit_owner) IN
    IF \/ ArrLen(unit_kind) # n \/ ArrLen(unit_count) # n \/ ArrLen(is_artefact) # n
       \/ ArrLen(is_p0_start) # n \/ ArrLen(is_p1_start) # n
    THEN LegalErr
    ELSE IF max_move_amount_ = 0 THEN LegalOk(<<>>)
    ELSE IF state_code = GAME_OVER THEN LegalOk(<<>>)
    ELSE IF state_code = CHOOSE_SATELLITE
         THEN LegalOk(SelectSeq([i \in 1..Min(NUM_SATS, ArrLen(sat_charges)) |-> i - 1],
                                LAMBDA i : sat_charges[i] > 0))
    ELSE IF state_code = CHOOSE_DIRECTION THEN LegalOk(<<6, 7>>)
    ELSE IF state_code # PERFORM_ACTIONS THEN LegalOk(<<>>)
    ELSE IF action_type_code = ADD_TANK \/ action_type_code = ADD_BOT
         THEN IF owner_total_of(turn, unit_owner, unit_count) >= ARMY_CAP
              THEN LegalOk(<<>>)
              ELSE IF action_type_code = ADD_TANK
                   THEN LegalOk(add_indices(add_tank_targets(turn, unit_owner, unit_kind,
                                     is_artefact, is_p0_start, is_p1_start)))
                   ELSE LegalOk(add_indices(add_bot_targets(turn, unit_owner, unit_kind,
                                     is_p0_start, is_p1_start)))
    ELSE IF action_type_code = MOVE_TANK \/ action_type_code = MOVE_BOT
         THEN IF ArrLen(neighbors_by_cell_id) # n
              THEN LegalErr
              ELSE LegalOk(move_indices(action_type_code, turn, unit_owner, unit_kind,
                                        unit_count, is_artefact, max_move_amount_))
    ELSE LegalOk(<<>>)

\* NativeSatGame::legal_action_indices
legal_action_indices(g, max_move_amount_) ==
    generate_legal_action_indices_inner(g.state_code, g.action_type_code, g.turn,
        g.sat_charges, g.unit_owner, g.unit_kind, g.unit_count, g.is_artefact,
        g.is_p0_start, g.is_p1_start, max_move_amount_)

(***************************************************************************)
(* The move listing: generate_move_actions                                 *)
(* The result is [err, out]: out is the vector of (src, dst, amount)       *)
(* triples in the order the code pushes them.                              *)
(***************************************************************************)
AmountsFrom(lo, hi) == [j \in 1..(hi - lo + 1) |-> lo + j - 1]

\* move_amounts with ">=" for ">" in the tank-against-tank test
move_amounts_equal_count(req_kind, turn, src_count, target_owner, target_kind, target_count, target_artefact) ==
    IF req_kind = TANK /\ target_artefact THEN <<>>
    ELSE IF target_owner = -1 THEN AmountsFrom(1, src_count)
    ELSE IF target_owner = turn
         THEN (IF target_kind = req_kind THEN AmountsFrom(1, src_count) ELSE <<>>)
    ELSE IF req_kind = BOT THEN <<>>
    ELSE IF target_kind = BOT THEN AmountsFrom(1, src_count)
    ELSE IF target_kind = TANK /\ src_count >= target_count
         THEN AmountsFrom(target_count, src_count)
    ELSE <<>>

\* The body of the neighbour loop after the start-hex test: the amounts pushed
\* for one directed edge, in order.
move_amounts(req_kind, turn, src_count, target_owner, target_kind, target_count, target_artefact) ==
    IF req_kind = TANK /\ target_artefact THEN <<>>
    ELSE IF target_owner = -1 THEN AmountsFrom(1, src_count)
    ELSE IF target_owner = turn
         THEN (IF target_kind = req_kind THEN AmountsFrom(1, src_count) ELSE <<>>)
    ELSE IF req_kind = BOT THEN <<>>
    ELSE IF target_kind = BOT THEN AmountsFrom(1, src_count)
    ELSE IF target_kind = TANK /\ src_count > target_count
         THEN AmountsFrom(target_count + 1, src_count)
    ELSE <<>>

\* out.push((sid, eid, amount)) for the amounts of one edge
move_triples(e, amounts) == [j \in DOMAIN amounts |-> <<e.sid, e.eid, amounts[j]>>]

\* The two nested loops over the sources and their neighbours.
move_actions(unit_owner, unit_kind, unit_count, turn, req_kind, is_artefact) ==
    LET AmountsOf(e) == move_amounts(req_kind, turn, unit_count[e.sid], unit_owner[e.eid],
                                     unit_kind[e.eid], unit_count[e.eid], is_artefact[e.eid])
        Visited(e) ==
            /\ unit_owner[e.sid] = turn /\ unit_kind[e.sid] = req_kind /\ unit_count[e.sid] # 0
            /\ e.eid \notin opp_start_pair(turn)
        RECURSIVE Push(_, _)
        Push(visited, k) ==
            IF k > Len(visited) THEN <<>>
            ELSE move_triples(visited[k], AmountsOf(visited[k])) \o Push(visited, k + 1)
    IN  Push(SelectSeq(edge_walk, Visited), 1)

generate_move_actions(unit_owner, unit_kind, unit_count, turn, req_kind, is_artefact) ==
    LET n == ArrLen(unit_owner) IN
    IF ArrLen(unit_kind) # n \/ ArrLen(unit_count) # n \/ ArrLen(is_artefact) # n
    THEN [err |-> TRUE, out |-> <<>>]
    ELSE IF req_kind # BOT /\ req_kind # TANK THEN [err |-> TRUE, out |-> <<>>]
    ELSE IF ArrLen(neighbors_by_cell_id) # n THEN [err |-> TRUE, out |-> <<>>]
    ELSE [err |-> FALSE,
          out |-> move_actions(unit_owner, unit_kind, unit_count, turn, req_kind, is_artefact)]

(***************************************************************************)
(* NativeSatGame: the mutations                                            *)
(***************************************************************************)
\* end_turn giving a tie at the turn limit to the mover, as check_win does
end_turn_tie_to_mover(g) ==
    IF g.turn_count >= g.max_turns
    THEN [g EXCEPT !.state_code = GAME_OVER,
                   !.winner = IF g.scores[0] > g.scores[1] THEN 0
                              ELSE IF g.scores[1] > g.scores[0] THEN 1
                              ELSE g.turn]
    ELSE [g EXCEPT !.turn = 1 - g.turn,
                   !.turn_count = IF 1 - g.turn = 0 THEN g.turn_count + 1 ELSE g.turn_count,
                   !.state_code = CHOOSE_SATELLITE,
                   !.active_satellite_idx = -1,
                   !.action_type_code = 0,
                   !.actions_remaining = 0,
                   !.picked_up_charges = 0]

\* end_turn counting a turn at every handover
end_turn_count_every_handover(g) ==
    IF g.turn_count >= g.max_turns
    THEN [g EXCEPT !.state_code = GAME_OVER,
                   !.winner = IF g.scores[0] > g.scores[1] THEN 0
                              ELSE IF g.scores[1] > g.scores[0] THEN 1
                              ELSE -1]
    ELSE [g EXCEPT !.turn = 1 - g.turn,
                   !.turn_count = g.turn_count + 1,
                   !.state_code = CHOOSE_SATELLITE,
                   !.active_satellite_idx = -1,
                   !.action_type_code = 0,
                   !.actions_remaining = 0,
                   !.picked_up_charges = 0]

\* end_turn naming the leader before it tests the turn limit
end_turn_names_leader_first(g) ==
    IF g.turn_count >= g.max_turns
    THEN [g EXCEPT !.state_code = GAME_OVER,
                   !.winner = IF g.scores[0] > g.scores[1] THEN 0
                              ELSE IF g.scores[1] > g.scores[0] THEN 1
                              ELSE -1]
    ELSE [g EXCEPT !.winner = IF g.scores[0] > g.scores[1] THEN 0
                              ELSE IF g.scores[1] > g.scores[0] THEN 1
                              ELSE -1,
                   !.turn = 1 - g.turn,
                   !.turn_count = IF 1 - g.turn = 0 THEN g.turn_count + 1 ELSE g.turn_count,
                   !.state_code = CHOOSE_SATELLITE,
                   !.active_satellite_idx = -1,
                   !.action_type_code = 0,
                   !.actions_remaining = 0,
                   !.picked_up_charges = 0]

\* end_turn with ">" for ">=" in the turn-limit test
end_turn_past_limit(g) ==
    IF g.turn_count > g.max_turns
    THEN [g EXCEPT !.state_code = GAME_OVER,
                   !.winner = IF g.scores[0] > g.scores[1] THEN 0
                              ELSE IF g.scores[1] > g.scores[0] THEN 1
                              ELSE -1]
    ELSE [g EXCEPT !.turn = 1 - g.turn,
                   !.turn_count = IF 1 - g.turn = 0 THEN g.turn_count + 1 ELSE g.turn_count,
                   !.state_code = CHOOSE_SATELLITE,
                   !.active_satellite_idx = -1,
                   !.action_type_code = 0,
                   !.actions_remaining = 0,
                   !.picked_up_charges = 0]

\* NativeSatGame::end_turn
end_turn(g) ==
    IF g.turn_count >= g.max_turns
    THEN [g EXCEPT !.state_code = GAME_OVER,
                   !.winner = IF g.scores[0] > g.scores[1] THEN 0
                              ELSE IF g.scores[1] > g.scores[0] THEN 1
                              ELSE -1]
    ELSE [g EXCEPT !.turn = 1 - g.turn,
                   !.turn_count = IF 1 - g.turn = 0 THEN g.turn_count + 1 ELSE g.turn_count,
                   !.state_code = CHOOSE_SATELLITE,
                   !.active_satellite_idx = -1,
                   !.action_type_code = 0,
                   !.actions_remaining = 0,
                   !.picked_up_charges = 0]

\* check_win calling equal scores a draw, as end_turn does
check_win_tie_draw(g) ==
    IF g.scores[g.turn] >= WIN_SCORE
    THEN [won |-> TRUE, g |-> [g EXCEPT !.winner = g.turn, !.state_code = GAME_OVER]]
    ELSE IF Cardinality({c \in DOMAIN g.is_artefact : g.is_artefact[c]}) = 0
         THEN [won |-> TRUE,
               g |-> [g EXCEPT !.winner = IF g.scores[0] > g.scores[1] THEN 0
                                          ELSE IF g.scores[1] > g.scores[0] THEN 1
                                          ELSE -1,
                               !.state_code = GAME_OVER]]
         ELSE [won |-> FALSE, g |-> g]

\* check_win with ">" for ">=" in the score test
check_win_above_win_score(g) ==
    IF g.scores[g.turn] > WIN_SCORE
    THEN [won |-> TRUE, g |-> [g EXCEPT !.winner = g.turn, !.state_code = GAME_OVER]]
    ELSE IF Cardinality({c \in DOMAIN g.is_artefact : g.is_artefact[c]}) = 0
         THEN [won |-> TRUE,
               g |-> [g EXCEPT !.winner = IF g.scores[0] > g.scores[1] THEN 0
                                          ELSE IF g.scores[1] > g.scores[0] THEN 1
                                          ELSE g.turn,
                               !.state_code = GAME_OVER]]
         ELSE [won |-> FALSE, g |-> g]

\* NativeSatGame::check_win: [won, g]
check_win(g) ==
    IF g.scores[g.turn] >= WIN_SCORE
    THEN [won |-> TRUE, g |-> [g EXCEPT !.winner = g.turn, !.state_code = GAME_OVER]]
    ELSE IF Cardinality({c \in DOMAIN g.is_artefact : g.is_artefact[c]}) = 0
         THEN [won |-> TRUE,
               g |-> [g EXCEPT !.winner = IF g.scores[0] > g.scores[1] THEN 0
                                          ELSE IF g.scores[1] > g.scores[0] THEN 1
                                          ELSE g.turn,
                               !.state_code = GAME_OVER]]
         ELSE [won |-> FALSE, g |-> g]

\* NativeSatGame::apply_add: [changed, g]
apply_add(g, cid) ==
    LET turn == g.turn
        Rejected == [changed |-> FALSE, g |-> g]
        owner == g.unit_owner[cid]
        kind == g.unit_kind[cid]
    IN
    IF cid >= ArrLen(g.unit_owner) THEN Rejected
    ELSE IF owner_total_of(turn, g.unit_owner, g.unit_count) >= ARMY_CAP THEN Rejected
    ELSE IF g.action_type_code = ADD_TANK
         THEN LET opp_start == IF g.turn = 0 THEN g.is_p1_start ELSE g.is_p0_start IN
              IF g.is_artefact[cid] \/ opp_start[cid] THEN Rejected
              ELSE IF owner = -1
                   THEN [changed |-> TRUE,
                         g |-> [g EXCEPT !.unit_owner[cid] = turn,
                                         !.unit_kind[cid] = TANK,
                                         !.unit_count[cid] = 1]]
              ELSE IF owner = turn /\ kind = TANK
                   THEN [changed |-> TRUE,
                         g |-> [g EXCEPT !.unit_count[cid] = saturating_add(@, 1)]]
              ELSE Rejected
    ELSE IF g.action_type_code = ADD_BOT
         THEN LET own_start == IF g.turn = 0 THEN g.is_p0_start ELSE g.is_p1_start IN
              IF owner = turn /\ kind = BOT
              THEN [changed |-> TRUE,
                    g |-> [g EXCEPT !.unit_count[cid] = saturating_add(@, 1)]]
              ELSE IF owner = -1 /\ own_start[cid]
                   THEN [changed |-> TRUE,
                         g |-> [g EXCEPT !.unit_owner[cid] = turn,
                                         !.unit_kind[cid] = BOT,
                                         !.unit_count[cid] = 1]]
              ELSE Rejected
    ELSE Rejected

\* move_leave_source keeping owner and kind on a source it empties
move_leave_source_keep_owner(g, sid, amount) ==
    [g EXCEPT !.unit_count[sid] = @ - amount]

\* apply_move, the part under "execute": the source gives up the amount first.
move_leave_source(g, sid, amount) ==
    IF g.unit_count[sid] - amount = 0
    THEN [g EXCEPT !.unit_count[sid] = 0, !.unit_owner[sid] = -1, !.unit_kind[sid] = 0]
    ELSE [g EXCEPT !.unit_count[sid] = @ - amount]

\* apply_move, the destination's resolution: [did_move_in, g]. target_owner is the
\* destination's owner as read before the source was touched.
move_resolve_target(g1, sid, eid, amount, turn, req_kind, target_owner) ==
    IF target_owner = -1
    THEN [did_move_in |-> TRUE,
          g |-> [g1 EXCEPT !.unit_owner[eid] = turn,
                           !.unit_kind[eid] = req_kind,
                           !.unit_count[eid] = amount]]
    ELSE IF target_owner = turn
    THEN [did_move_in |-> TRUE,
          g |-> [g1 EXCEPT !.unit_count[eid] = saturating_add(@, amount)]]
    ELSE LET cleared == [g1 EXCEPT !.unit_owner[eid] = -1,
                                   !.unit_kind[eid] = 0,
                                   !.unit_count[eid] = 0]
         IN  IF req_kind = TANK
             THEN [did_move_in |-> FALSE,
                   g |-> IF cleared.unit_owner[sid] = -1
                         THEN [cleared EXCEPT !.unit_owner[sid] = turn,
                                              !.unit_kind[sid] = req_kind,
                                              !.unit_count[sid] = amount]
                         ELSE [cleared EXCEPT !.unit_count[sid] = saturating_add(@, amount)]]
             ELSE [did_move_in |-> TRUE,
                   g |-> [cleared EXCEPT !.unit_owner[eid] = turn,
                                         !.unit_kind[eid] = req_kind,
                                         !.unit_count[eid] = amount]]

\* move_capture scoring one point for a capture, whatever the amount
move_capture_one_point(r, eid, amount, turn) ==
    IF r.did_move_in /\ r.g.is_artefact[eid]
    THEN [r.g EXCEPT !.is_artefact[eid] = FALSE, !.scores[turn] = @ + 1]
    ELSE r.g

\* apply_move, the artefact capture that ends it.
move_capture(r, eid, amount, turn) ==
    IF r.did_move_in /\ r.g.is_artefact[eid]
    THEN [r.g EXCEPT !.is_artefact[eid] = FALSE, !.scores[turn] = @ + amount]
    ELSE r.g

\* apply_move without the test of the opponent's start hexes
apply_move_any_destination(g, sid, eid, amount) ==
    LET n == ArrLen(g.unit_owner)
        turn == g.turn
        req_kind == IF g.action_type_code = MOVE_TANK THEN TANK ELSE BOT
        Rejected == [changed |-> FALSE, g |-> g]
        target_owner == g.unit_owner[eid]
        target_kind == g.unit_kind[eid]
        target_count == g.unit_count[eid]
    IN
    IF sid >= n \/ eid >= n \/ amount = 0 THEN Rejected
    ELSE IF g.unit_owner[sid] # turn \/ g.unit_kind[sid] # req_kind THEN Rejected
    ELSE IF amount > g.unit_count[sid] THEN Rejected
    ELSE IF req_kind = TANK /\ g.is_artefact[eid] THEN Rejected
    ELSE IF target_owner = turn /\ target_kind # req_kind THEN Rejected
    ELSE IF target_owner # turn /\ target_owner # -1 /\ req_kind = BOT THEN Rejected
    ELSE IF target_owner # turn /\ target_owner # -1
            /\ target_kind = TANK /\ target_count >= amount THEN Rejected
    ELSE [changed |-> TRUE,
          g |-> move_capture(
                    move_resolve_target(move_leave_source(g, sid, amount),
                                        sid, eid, amount, turn, req_kind, target_owner),
                    eid, amount, turn)]

\* NativeSatGame::apply_move: [changed, g]
apply_move(g, sid, eid, amount) ==
    LET n == ArrLen(g.unit_owner)
        turn == g.turn
        req_kind == IF g.action_type_code = MOVE_TANK THEN TANK ELSE BOT
        Rejected == [changed |-> FALSE, g |-> g]
        target_owner == g.unit_owner[eid]
        target_kind == g.unit_kind[eid]
        target_count == g.unit_count[eid]
    IN
    IF sid >= n \/ eid >= n \/ amount = 0 THEN Rejected
    ELSE IF g.unit_owner[sid] # turn \/ g.unit_kind[sid] # req_kind THEN Rejected
    ELSE IF amount > g.unit_count[sid] THEN Rejected
    ELSE IF eid \in opp_start_pair(g.turn) THEN Rejected
    ELSE IF req_kind = TANK /\ g.is_artefact[eid] THEN Rejected
    ELSE IF target_owner = turn /\ target_kind # req_kind THEN Rejected
    ELSE IF target_owner # turn /\ target_owner # -1 /\ req_kind = BOT THEN Rejected
    ELSE IF target_owner # turn /\ target_owner # -1
            /\ target_kind = TANK /\ target_count >= amount THEN Rejected
    ELSE [changed |-> TRUE,
          g |-> move_capture(
                    move_resolve_target(move_leave_source(g, sid, amount),
                                        sid, eid, amount, turn, req_kind, target_owner),
                    eid, amount, turn)]

\* apply_action_index, lines 732-749: the scan that finds the directed edge with a
\* given ordinal: [found, sid, eid].
edge_at(edges, edge_ordinal) ==
    IF edge_ordinal < Len(edges)
    THEN [found |-> TRUE, sid |-> edges[edge_ordinal + 1].sid,
          eid |-> edges[edge_ordinal + 1].eid]
    ELSE [found |-> FALSE, sid |-> 0, eid |-> 0]

\* decode_edge counting the edges from 1
decode_edge_from_one(edge_ordinal) == edge_at(edge_walk, edge_ordinal - 1)

decode_edge(edge_ordinal) == edge_at(edge_walk, edge_ordinal)

\* The result of apply_action_index is [ret, g]: ret is "true" or "false" (Ok(bool))
\* or "err" (the PyValueError propagated by "?"), g the instance after the call.
Returned(ret, g) == [ret |-> ret, g |-> g]

\* choose_satellite without the test that the slot holds a charge
choose_satellite_empty_slot(g, action_index) ==
    IF action_index >= 6 THEN Returned("false", g)
    ELSE Returned("true",
            [g EXCEPT !.active_satellite_idx = action_index,
                      !.action_type_code =
                          CASE g.sat_type_codes[action_index] = 0 -> MOVE_TANK
                            [] g.sat_type_codes[action_index] = 1 -> MOVE_BOT
                            [] g.sat_type_codes[action_index] = 2 -> ADD_TANK
                            [] g.sat_type_codes[action_index] = 3 -> ADD_BOT
                            [] OTHER -> 0,
                      !.picked_up_charges = g.sat_charges[action_index],
                      !.sat_charges[action_index] = 0,
                      !.state_code = CHOOSE_DIRECTION])

\* choose_satellite leaving the picked-up charges on the slot
choose_satellite_keep_charge(g, action_index) ==
    IF action_index >= 6 THEN Returned("false", g)
    ELSE IF g.sat_charges[action_index] = 0 THEN Returned("false", g)
    ELSE Returned("true",
            [g EXCEPT !.active_satellite_idx = action_index,
                      !.action_type_code =
                          CASE g.sat_type_codes[action_index] = 0 -> MOVE_TANK
                            [] g.sat_type_codes[action_index] = 1 -> MOVE_BOT
                            [] g.sat_type_codes[action_index] = 2 -> ADD_TANK
                            [] g.sat_type_codes[action_index] = 3 -> ADD_BOT
                            [] OTHER -> 0,
                      !.picked_up_charges = g.sat_charges[action_index],
                      !.state_code = CHOOSE_DIRECTION])

\* apply_action_index, state_code == 1
choose_satellite(g, action_index) ==
    IF action_index >= 6 THEN Returned("false", g)
    ELSE IF g.sat_charges[action_index] = 0 THEN Returned("false", g)
    ELSE Returned("true",
            [g EXCEPT !.active_satellite_idx = action_index,
                      !.action_type_code =
                          CASE g.sat_type_codes[action_index] = 0 -> MOVE_TANK
                            [] g.sat_type_codes[action_index] = 1 -> MOVE_BOT
                            [] g.sat_type_codes[action_index] = 2 -> ADD_TANK
                            [] g.sat_type_codes[action_index] = 3 -> ADD_BOT
                            [] OTHER -> 0,
                      !.picked_up_charges = g.sat_charges[action_index],
                      !.sat_charges[action_index] = 0,
                      !.state_code = CHOOSE_DIRECTION])

\* The while loop of the direction step.
RECURSIVE distribute(_, _, _, _)
distribute(sat_charges, idx, dir, to_distribute) ==
    IF to_distribute > 0
    THEN LET next == (idx + dir + 6) % 6
         IN  distribute([sat_charges EXCEPT ![next] = saturating_add(@, 1)],
                        next, dir, to_distribute - 1)
    ELSE sat_charges

\* generate_legal_action_indices_inner(3, ...) as apply_action_index calls it on
\* its own fields after a direction choice and after a board mutation.
legal_in_perform(g, max_move_amount_) ==
    generate_legal_action_indices_inner(PERFORM_ACTIONS, g.action_type_code, g.turn,
        g.sat_charges, g.unit_owner, g.unit_kind, g.unit_count, g.is_artefact,
        g.is_p0_start, g.is_p1_start, max_move_amount_)

\* state_code == 2, after the charges are dropped: the turn ends when the chosen
\* action has no legal index, else the action phase starts.
enter_actions(g1, legal) ==
    IF legal.err THEN Returned("err", g1)
    ELSE IF legal.out = <<>> THEN Returned("true", end_turn(g1))
    ELSE Returned("true", [g1 EXCEPT !.actions_remaining = g1.picked_up_charges,
                                     !.state_code = PERFORM_ACTIONS])

\* drop_charges walking the ring the other way
drop_charges_reversed(g, dir) ==
    [g EXCEPT !.sat_charges = distribute(g.sat_charges, g.active_satellite_idx, 0 - dir,
                                         Max(g.picked_up_charges, 0))]

\* drop_charges dropping one charge less than was picked up
drop_charges_one_short(g, dir) ==
    [g EXCEPT !.sat_charges = distribute(g.sat_charges, g.active_satellite_idx, dir,
                                         Max(g.picked_up_charges - 1, 0))]

drop_charges(g, dir) ==
    [g EXCEPT !.sat_charges = distribute(g.sat_charges, g.active_satellite_idx, dir,
                                         Max(g.picked_up_charges, 0))]

drop_and_enter(g1, max_move_amount_) ==
    enter_actions(g1, legal_in_perform(g1, max_move_amount_))

\* apply_action_index, state_code == 2
choose_direction(g, action_index, max_move_amount_) ==
    IF action_index # 6 /\ action_index # 7 THEN Returned("false", g)
    ELSE drop_and_enter(drop_charges(g, IF action_index = 7 THEN 1 ELSE -1),
                        max_move_amount_)

\* continue_or_end without the early end of the turn
continue_or_end_keep_turn(g2, legal) ==
    IF legal.err THEN Returned("err", g2)
    ELSE Returned("true", g2)

\* apply_action_index, lines 752-780: what follows a board mutation.
continue_or_end(g2, legal) ==
    IF legal.err THEN Returned("err", g2)
    ELSE IF legal.out = <<>> THEN Returned("true", end_turn(g2))
    ELSE Returned("true", g2)

\* after_decrement with "<" for "<=": a turn kept with no action left
after_decrement_below_zero(g2, max_move_amount_) ==
    IF g2.actions_remaining < 0 THEN Returned("true", end_turn(g2))
    ELSE continue_or_end(g2, legal_in_perform(g2, max_move_amount_))

after_decrement(g2, max_move_amount_) ==
    IF g2.actions_remaining <= 0 THEN Returned("true", end_turn(g2))
    ELSE continue_or_end(g2, legal_in_perform(g2, max_move_amount_))

\* after_check_win without the decrement of actions_remaining
after_check_win_no_countdown(w, max_move_amount_) ==
    IF w.won THEN Returned("true", w.g)
    ELSE after_decrement(w.g, max_move_amount_)

after_check_win(w, max_move_amount_) ==
    IF w.won THEN Returned("true", w.g)
    ELSE after_decrement([w.g EXCEPT !.actions_remaining = @ - 1], max_move_amount_)

after_mutation(g1, max_move_amount_) == after_check_win(check_win(g1), max_move_amount_)

\* the move an index decodes to, applied when its edge exists
apply_decoded_move(g, edge, amount) ==
    IF ~edge.found THEN [changed |-> FALSE, g |-> g]
    ELSE apply_move(g, edge.sid, edge.eid, amount)

\* apply_action_index, state_code == 3: the board mutation the index decodes to.
perform_mutation(g, action_index, max_move_amount_) ==
    LET n == ArrLen(g.unit_owner)
        move_base == ADD_BASE + n
        move_span == num_edges * max_move_amount_
        Unchanged == [changed |-> FALSE, g |-> g]
        rel == action_index - move_base
        amount == ((rel % max_move_amount_) + 1) % (U8_MAX + 1)
    IN  IF g.action_type_code = ADD_TANK \/ g.action_type_code = ADD_BOT
        THEN IF ~(ADD_BASE <= action_index /\ action_index < move_base)
             THEN Unchanged
             ELSE apply_add(g, action_index - ADD_BASE)
        ELSE IF g.action_type_code = MOVE_TANK \/ g.action_type_code = MOVE_BOT
        THEN IF ~(move_base <= action_index /\ action_index < move_base + move_span)
             THEN Unchanged
             ELSE apply_decoded_move(g, decode_edge(rel \div max_move_amount_), amount)
        ELSE Unchanged

\* state_code == 3: "if !changed { return Ok(false) }", then the bookkeeping
mutation_outcome(g, m, max_move_amount_) ==
    IF ~m.changed THEN Returned("false", g)
    ELSE after_mutation(m.g, max_move_amount_)

\* apply_action_index taking every state_code other than 1 and 2 for the action phase
apply_action_index_open_phase(g, action_index, max_move_amount_) ==
    IF max_move_amount_ = 0 THEN Returned("false", g)
    ELSE IF g.state_code = CHOOSE_SATELLITE THEN choose_satellite(g, action_index)
    ELSE IF g.state_code = CHOOSE_DIRECTION
         THEN choose_direction(g, action_index, max_move_amount_)
    ELSE mutation_outcome(g, perform_mutation(g, action_index, max_move_amount_),
                          max_move_amount_)

\* NativeSatGame::apply_action_index
apply_action_index(g, action_index, max_move_amount_) ==
    IF max_move_amount_ = 0 \/ g.state_code = GAME_OVER THEN Returned("false", g)
    ELSE IF g.state_code = CHOOSE_SATELLITE THEN choose_satellite(g, action_index)
    ELSE IF g.state_code = CHOOSE_DIRECTION
         THEN choose_direction(g, action_index, max_move_amount_)
    ELSE IF g.state_code # PERFORM_ACTIONS THEN Returned("false", g)
    ELSE mutation_outcome(g, perform_mutation(g, action_index, max_move_amount_),
                          max_move_amount_)

(***************************************************************************)
(* NativeSatGame::new                                                      *)
(***************************************************************************)
\* [err, game]: the arrays are stored as given; only the satellite arrays' lengths
\* are looked at.
NativeSatGame_new(a) ==
    IF ArrLen(a.sat_type_codes) # 6 \/ ArrLen(a.sat_charges) # 6
    THEN [err |-> TRUE, game |-> "none"]
    ELSE [err |-> FALSE,
          game |-> [unit_owner |-> a.unit_owner, unit_kind |-> a.unit_kind,
                    unit_count |-> a.unit_count, is_artefact |-> a.is_artefact,
                    is_p0_start |-> a.is_p0_start, is_p1_start |-> a.is_p1_start,
                    sat_type_codes |-> a.sat_type_codes, sat_charges |-> a.sat_charges,
                    turn |-> a.turn, scores |-> [p \in 0..1 |-> IF p = 0 THEN a.score0 ELSE a.score1],
                    state_code |-> a.state_code,
                    active_satellite_idx |-> a.active_satellite_idx,
                    actions_remaining |-> a.actions_remaining,
                    picked_up_charges |-> a.picked_up_charges,
                    action_type_code |-> a.action_type_code,
                    turn_count |-> a.turn_count, max_turns |-> a.max_turns,
                    winner |-> a.winner]]

(***************************************************************************)
(* Initial games and the caller                                            *)
(***************************************************************************)
MaxMove == 2

\* Constructor arguments for a board of n cells holding the given stacks
\* (<<cell, owner, kind, count>>) and artefacts, about to start a turn.
StartArgs(n, stacks, artefacts, types, charges, turn, score0, score1, turn_count, max_turns) ==
    LET At(c) == CHOOSE u \in stacks : u[1] = c
        Held(c) == \E u \in stacks : u[1] = c
    IN  [unit_owner |-> [c \in 0..(n - 1) |-> IF Held(c) THEN At(c)[2] ELSE -1],
         unit_kind |-> [c \in 0..(n - 1) |-> IF Held(c) THEN At(c)[3] ELSE 0],
         unit_count |-> [c \in 0..(n - 1) |-> IF Held(c) THEN At(c)[4] ELSE 0],
         is_artefact |-> [c \in 0..(n - 1) |-> c \in artefacts],
         is_p0_start |-> [c \in 0..(n - 1) |-> c \in {3, 4}],
         is_p1_start |-> [c \in 0..(n - 1) |-> c \in {83, 84}],
         sat_type_codes |-> [i \in 0..5 |-> types[i + 1]],
         sat_charges |-> [i \in 0..5 |-> charges[i + 1]],
         turn |-> turn, score0 |-> score0, score1 |-> score1,
         state_code |-> CHOOSE_SATELLITE, active_satellite_idx |-> -1,
         actions_remaining |-> 0, picked_up_charges |-> 0, action_type_code |-> 0,
         turn_count |-> turn_count, max_turns |-> max_turns, winner |-> -1]

\* Slot types: 0 move_tank, 1 move_bot, 2 add_tank, 3 add_bot.
MixedSlots == <<0, 1, 2, 3, 0, 1>>

\* The games the model starts from. Each is a position a caller can construct:
\* the cell invariant holds, the start hexes are 3, 4 and 83, 84, the artefact
\* cells are empty and are no start hexes, and a turn is about to start.
TankDuel ==      \* tanks of both players in contact, one on its start hex; one turn
    StartArgs(num_cells,
              {<<75, 0, TANK, 3>>, <<74, 1, TANK, 1>>, <<76, 1, TANK, 3>>, <<65, 1, BOT, 1>>,
               <<83, 1, TANK, 1>>},
              {66}, MixedSlots, <<2, 0, 0, 0, 0, 0>>, 0, 0, 1, 0, 0)
BotRace ==       \* bots of both players beside the last two artefacts; two turns
    StartArgs(num_cells,
              {<<76, 1, BOT, 2>>, <<65, 0, BOT, 1>>, <<75, 0, TANK, 1>>},
              {66, 67}, <<1, 1, 3, 2, 0, 0>>, <<1, 0, 0, 0, 0, 0>>, 1, 0, 0, 0, 1)
ScoreRun ==      \* a bot stack beside two artefacts, two points short of the win
    StartArgs(num_cells,
              {<<65, 0, BOT, 2>>},
              {64, 66, 40}, MixedSlots, <<0, 2, 0, 0, 0, 0>>, 0, 7, 0, 0, 0)
FullArmy ==      \* an army one unit short of the cap
    StartArgs(num_cells,
              {<<75, 0, TANK, 19>>, <<74, 1, BOT, 1>>},
              {66}, MixedSlots, <<0, 0, 2, 0, 0, 0>>, 0, 0, 0, 0, 0)
TankOnOppStart == \* a tank standing on the opponent's start hex, no artefact left
    StartArgs(num_cells,
              {<<83, 0, TANK, 1>>},
              {}, MixedSlots, <<0, 0, 1, 0, 0, 0>>, 0, 0, 0, 0, 0)
BotDrops ==      \* bot drops on the start hexes; three turns
    StartArgs(num_cells,
              {<<65, 0, BOT, 1>>},
              {66}, <<3, 1, 3, 3, 3, 3>>, <<1, 0, 0, 0, 0, 0>>, 0, 0, 0, 0, 1)

\* A game taken up in mid-turn: slot 0 was chosen with 7 charges and stands beside
\* a full slot; the mover has no bot to move, so the turn, the only one, ends with
\* the direction choice.
RingWrap ==
    [StartArgs(num_cells,
               {<<75, 1, TANK, 1>>},
               {66}, <<1, 1, 1, 1, 1, 1>>, <<0, U8_MAX, 0, 0, 0, 0>>, 0, 0, 0, 0, 0)
        EXCEPT !.state_code = CHOOSE_DIRECTION, !.active_satellite_idx = 0,
               !.picked_up_charges = 7, !.action_type_code = MOVE_BOT]

StartGames == {TankDuel, BotRace, ScoreRun, FullArmy, TankOnOppStart, BotDrops, RingWrap}

\* The cells the caller of the model picks its board actions in.
focus_cells == {3, 4, 64, 65, 66, 67, 74, 75, 76, 83, 84}

EdgeInFocus(edge) == edge.found /\ edge.sid \in focus_cells /\ edge.eid \in focus_cells

InFocus(g, action_index, max_move_amount_) ==
    LET move_base == ADD_BASE + ArrLen(g.unit_owner)
    IN  IF action_index < ADD_BASE THEN TRUE
        ELSE IF action_index < move_base THEN (action_index - ADD_BASE) \in focus_cells
        ELSE EdgeInFocus(decode_edge((action_index - move_base) \div max_move_amount_))

LegalSet(g, max_move_amount_) == Range(legal_action_indices(g, max_move_amount_).out)

\* Every index a caller can pass that the index space gives a meaning, and one past it.
AllIndices(g, max_move_amount_) ==
    0..(ADD_BASE + ArrLen(g.unit_owner) + num_edges * max_move_amount_)

\* Indices the caller tries although they are not legal: a direction or an add
\* index in the wrong phase, a move index under an add action type, an add index
\* and the index one past the move range under a move action type.
ProbeIndices(g, max_move_amount_) ==
    LET move_base == ADD_BASE + ArrLen(g.unit_owner)
        tried == IF g.state_code = PERFORM_ACTIONS
                    /\ g.action_type_code \in {ADD_TANK, ADD_BOT}
                 THEN {move_base}
                 ELSE IF g.state_code = PERFORM_ACTIONS
                 THEN {ADD_BASE + 75, move_base + num_edges * max_move_amount_}
                 ELSE IF g.state_code = CHOOSE_DIRECTION THEN {ADD_BASE + 75}
                 ELSE {7}
    IN  tried \ LegalSet(g, max_move_amount_)

Init ==
    /\ game \in {NativeSatGame_new(a).game : a \in StartGames}
    /\ max_move_amount \in 1..MaxMove
    /\ last = [index |-> -1, m |-> 0, ret |-> "none"]

\* One call of apply_action_index on the instance: r is what it returned.
Called(action_index, m, r) ==
    /\ game' = r.g
    /\ last' = [index |-> action_index, m |-> m, ret |-> r.ret]
    /\ UNCHANGED max_move_amount

Call(action_index, m) == Called(action_index, m, apply_action_index(game, action_index, m))

\* The caller masks with legal_action_indices and applies one of the legal indices.
ApplyLegal ==
    \E action_index \in {i \in LegalSet(game, max_move_amount) :
                            InFocus(game, i, max_move_amount)} :
        Call(action_index, max_move_amount)

\* The caller applies an index outside the legal set.
ApplyIllegal ==
    \E action_index \in ProbeIndices(game, max_move_amount) :
        Call(action_index, max_move_amount)

\* The caller passes max_move_amount = 0 with index 6: a direction index, legal in
\* the direction phase for every other max_move_amount.
ApplyZeroMove ==
    \E action_index \in {6} \cap AllIndices(game, 0) : Call(action_index, 0)

Next == ApplyLegal \/ ApplyIllegal \/ ApplyZeroMove

Spec == Init /\ [][Next]_vars

(***************************************************************************)
(* The constructor called with arrays of any lengths                       *)
(***************************************************************************)
CellLengths == {85, num_cells}
SlotLengths == {NUM_SATS - 1, NUM_SATS, NUM_SATS + 1}

\* Constructor arguments for an empty board: lens[1..6] are the lengths of
\* unit_owner, unit_kind, unit_count, is_artefact, is_p0_start, is_p1_start.
NewArgs(lens, types_len, charges_len) ==
    [unit_owner |-> [c \in 0..(lens[1] - 1) |-> -1],
     unit_kind |-> [c \in 0..(lens[2] - 1) |-> 0],
     unit_count |-> [c \in 0..(lens[3] - 1) |-> 0],
     is_artefact |-> [c \in 0..(lens[4] - 1) |-> FALSE],
     is_p0_start |-> [c \in 0..(lens[5] - 1) |-> c \in {3, 4}],
     is_p1_start |-> [c \in 0..(lens[6] - 1) |-> c \in {83, 84}],
     sat_type_codes |-> [i \in 0..(types_len - 1) |-> 0],
     sat_charges |-> [i \in 0..(charges_len - 1) |-> 1],
     turn |-> 0, score0 |-> 0, score1 |-> 0,
     state_code |-> CHOOSE_SATELLITE, active_satellite_idx |-> -1,
     actions_remaining |-> 0, picked_up_charges |-> 0, action_type_code |-> 0,
     turn_count |-> 0, max_turns |-> 0, winner |-> -1]

InitNew ==
    /\ game = "none"
    /\ max_move_amount = 1
    /\ last = [index |-> -1, m |-> 0, ret |-> "none"]

\* One call of NativeSatGame::new: r is what it returned.
Constructed(lens, types_len, charges_len, r) ==
    /\ game' = r.game
    /\ last' = [index |-> -1, m |-> 0, ret |-> IF r.err THEN "err" ELSE "ok",
                lengths |-> <<lens, types_len, charges_len>>]
    /\ UNCHANGED max_move_amount

Construct ==
    /\ last.ret = "none"
    /\ \E lens \in [1..6 -> CellLengths], types_len \in SlotLengths,
          charges_len \in SlotLengths :
           Constructed(lens, types_len, charges_len,
                       NativeSatGame_new(NewArgs(lens, types_len, charges_len)))

NextNew == Construct

SpecNew == InitNew /\ [][NextNew]_vars

(***************************************************************************)
(* The two move enumerators called on one board                            *)
(***************************************************************************)
MaxStack == 2

\* The arguments of the calls: two stacks on neighbouring cells, the first on
\* cell 75, with or without an artefact beside them, on arrays of n cells, for
\* either mover and either move action.
MoveArgs(n, first, second, artefacts, turn, action_type_code) ==
    [StartArgs(n, {first, second}, artefacts, MixedSlots, <<0, 0, 0, 0, 0, 0>>,
               turn, 0, 0, 0, 1)
        EXCEPT !.state_code = PERFORM_ACTIONS, !.action_type_code = action_type_code]

StackChoices(cells) == {<<c, o, k, x>> : c \in cells, o \in {0, 1}, k \in {BOT, TANK}, x \in 1..MaxStack}

MoveCalls ==
    {MoveArgs(n, first, second, artefacts, turn, action_type_code) :
        n \in CellLengths, first \in StackChoices({75}), second \in StackChoices({66, 76, 83}),
        artefacts \in {{}, {74}}, turn \in {0, 1}, action_type_code \in {MOVE_TANK, MOVE_BOT}}

req_kind_of(action_type_code) == IF action_type_code = MOVE_TANK THEN TANK ELSE BOT

InitMoves ==
    /\ game \in MoveCalls
    /\ max_move_amount \in 1..(MaxStack + 1)
    /\ last = [index |-> -1, m |-> 0, ret |-> "none"]

\* generate_move_actions and the index enumerator, called on the same arrays.
Listed(actions, legal) ==
    /\ last' = [index |-> -1, m |-> max_move_amount, ret |-> "listed",
                actions |-> actions, legal |-> legal]
    /\ UNCHANGED <<game, max_move_amount>>

ListMoves ==
    /\ last.ret = "none"
    /\ Listed(generate_move_actions(game.unit_owner, game.unit_kind, game.unit_count, game.turn,
                                    req_kind_of(game.action_type_code), game.is_artefact),
              legal_in_perform(game, max_move_amount))

NextMoves == ListMoves

SpecMoves == InitMoves /\ [][NextMoves]_vars

(***************************************************************************)
(* Properties                                                              *)
(***************************************************************************)
MoveBase(g) == ADD_BASE + ArrLen(g.unit_owner)

IsStrictlyAscending(seq) == \A i \in 1..(Len(seq) - 1) : seq[i] < seq[i + 1]

\* C1: in every state reached by play, every index legal_action_indices returns for
\* the caller's max_move_amount is applied by apply_action_index, which returns true.
C1_LegalIndexApplies ==
    \A action_index \in LegalSet(game, max_move_amount) :
        apply_action_index(game, action_index, max_move_amount).ret = "true"

\* C2: in every reachable state, for the caller's max_move_amount and for 0, every
\* index of the index space (and the one past its end) that legal_action_indices does
\* not return is answered with false and leaves every field of the instance as it was.
C2_IllegalIndexRejected ==
    \A m \in {0, max_move_amount} :
        \A action_index \in AllIndices(game, m) \ LegalSet(game, m) :
            apply_action_index(game, action_index, m) = Returned("false", game)

\* An index past the end of the move range was tried during a move action and
\* answered with false.
C2_PastEndTried ==
    /\ game.state_code = PERFORM_ACTIONS
    /\ game.action_type_code \in {MOVE_TANK, MOVE_BOT}
    /\ last.m > 0
    /\ last.index = MoveBase(game) + num_edges * last.m
    /\ last.ret = "false"

\* C3: GameOver is absorbing. From a GameOver state no max_move_amount has a legal
\* index, every index is answered with false without a change, and the step the
\* caller takes leaves the instance as it was.
C3_GameOverAbsorbing ==
    [][game.state_code = GAME_OVER =>
          /\ \A m \in 0..MaxMove :
                /\ legal_action_indices(game, m) = LegalOk(<<>>)
                /\ \A action_index \in AllIndices(game, m) :
                      apply_action_index(game, action_index, m) = Returned("false", game)
          /\ game' = game
          /\ last'.ret = "false"]_vars

\* A call was made on a finished game and answered with false.
C3_CalledWhenOver ==
    /\ game.state_code = GAME_OVER
    /\ game.winner # -1
    /\ last.ret = "false"

\* C4: for every max_move_amount >= 1 the sequence legal_action_indices returns is
\* strictly ascending, in every phase and for every action type.
C4_LegalSorted ==
    \A m \in 1..MaxMove : IsStrictlyAscending(legal_action_indices(game, m).out)

\* C5: NativeSatGame::new creates a game only when the six per-cell arrays all
\* have the board's length (85 cells, or the 88 of the topology) and both satellite
\* arrays have length 6; any other call is rejected and creates nothing.
C5_NewRejectsWrongLengths ==
    last.ret = "ok" =>
        /\ \E n \in {85, num_cells} :
              /\ ArrLen(game.unit_owner) = n /\ ArrLen(game.unit_kind) = n
              /\ ArrLen(game.unit_count) = n /\ ArrLen(game.is_artefact) = n
              /\ ArrLen(game.is_p0_start) = n /\ ArrLen(game.is_p1_start) = n
        /\ ArrLen(game.sat_type_codes) = 6
        /\ ArrLen(game.sat_charges) = 6

\* C6: the cell invariant. In every reachable state every cell has owner none
\* exactly when its count is 0, a kind of bot or tank when its count is positive,
\* and kind none when it has no owner.
C6_CellInvariant ==
    \A c \in DOMAIN game.unit_owner :
        /\ (game.unit_owner[c] = -1) <=> (game.unit_count[c] = 0)
        /\ game.unit_count[c] > 0 => game.unit_kind[c] \in {BOT, TANK}
        /\ game.unit_owner[c] = -1 => game.unit_kind[c] = 0

\* The edge and the amount a move index stands for.
EdgeOfIndex(g, action_index, m) == decode_edge((action_index - MoveBase(g)) \div m)
AmountOfIndex(g, action_index, m) == ((action_index - MoveBase(g)) % m) + 1

SourceLeftEmpty(g, e) == g.unit_owner[e.sid] = -1 /\ g.unit_count[e.eid] > 0

\* A move has been applied that took the whole stack from its source cell to
\* the destination.
C6_SourceEmptied ==
    /\ last.ret = "true"
    /\ last.index >= MoveBase(game)
    /\ SourceLeftEmpty(game, EdgeOfIndex(game, last.index, last.m))

\* The units a player owns, summed over the cells.
OwnedUnits(g, p) ==
    LET upto[i \in 0..ArrLen(g.unit_owner)] ==
            IF i = 0 THEN 0
            ELSE upto[i - 1] + (IF g.unit_owner[i - 1] = p THEN g.unit_count[i - 1] ELSE 0)
    IN  upto[ArrLen(g.unit_owner)]

\* C7: the army cap. No player ever owns more than 20 units; and on a board where
\* the mover owns 20, an add action of either type has no legal index and apply_add
\* rejects every cell.
C7_ArmyCap ==
    /\ \A p \in 0..1 : OwnedUnits(game, p) <= 20
    /\ OwnedUnits(game, game.turn) >= 20 =>
          \A t \in {ADD_TANK, ADD_BOT} :
              /\ \A m \in 1..MaxMove :
                    legal_in_perform([game EXCEPT !.action_type_code = t], m) = LegalOk(<<>>)
              /\ \A cid \in DOMAIN game.unit_owner :
                    ~apply_add([game EXCEPT !.action_type_code = t], cid).changed

\* An add has been applied that brought the mover's army to the cap.
C7_CapReached ==
    /\ last.ret = "true"
    /\ last.index = ADD_BASE + 75
    /\ game.action_type_code = ADD_TANK
    /\ OwnedUnits(game, game.turn) = 20

TankFacesTank(g, e) ==
    /\ g.unit_owner[e.sid] = g.turn /\ g.unit_kind[e.sid] = TANK
    /\ g.unit_owner[e.eid] = 1 - g.turn /\ g.unit_kind[e.eid] = TANK

MoveIndex(g, e, amount, m) == MoveBase(g) + e.ord * m + (amount - 1)

\* On edge e the amount is enumerated exactly when it exceeds the destination's
\* count and fits the source and m; an amount that does not exceed it is rejected.
OverkillOnly(g, e, amount, m) ==
    /\ (MoveIndex(g, e, amount, m) \in LegalSet(g, m))
           <=> (g.unit_count[e.eid] + 1 <= amount
                /\ amount <= Min(g.unit_count[e.sid], m))
    /\ amount <= g.unit_count[e.eid] =>
           apply_action_index(g, MoveIndex(g, e, amount, m), m) = Returned("false", g)

\* C8 as claimed: in a move_tank action, for every edge from a tank stack of the
\* mover to a tank stack of the opponent of size t, the enumerated amounts are
\* exactly t+1 .. min(source count, M), and every amount up to t is rejected.
C8_StrictOverkillEveryEdge ==
    (game.state_code = PERFORM_ACTIONS /\ game.action_type_code = MOVE_TANK) =>
        \A k \in 1..num_edges :
            TankFacesTank(game, edge_walk[k]) =>
                \A amount \in 1..max_move_amount :
                    OverkillOnly(game, edge_walk[k], amount, max_move_amount)

\* C8 amended: the same, for every such edge whose destination is not one of the
\* two start hexes that are closed to the mover.
C8_StrictOverkill ==
    (game.state_code = PERFORM_ACTIONS /\ game.action_type_code = MOVE_TANK) =>
        \A k \in 1..num_edges :
            (TankFacesTank(game, edge_walk[k])
             /\ edge_walk[k].eid \notin opp_start_pair(game.turn)) =>
                \A amount \in 1..max_move_amount :
                    OverkillOnly(game, edge_walk[k], amount, max_move_amount)

\* A tank attack has destroyed the opponent's smaller stack on cell 74, and the
\* mover's tanks still face the opponent's equal stack with an action left.
C8_SmallerStackDestroyed ==
    /\ game.state_code = PERFORM_ACTIONS /\ game.action_type_code = MOVE_TANK
    /\ last.ret = "true"
    /\ game.unit_owner[74] = -1
    /\ \E k \in 1..num_edges :
          /\ TankFacesTank(game, edge_walk[k])
          /\ edge_walk[k].eid \notin opp_start_pair(game.turn)

MoveApplied(g, l) ==
    /\ g.state_code = PERFORM_ACTIONS
    /\ g.action_type_code \in {MOVE_TANK, MOVE_BOT}
    /\ l.ret = "true"

NoScoring(g, h) == h.scores = g.scores /\ h.is_artefact = g.is_artefact

\* The move of `amount` along e took g to h: with an artefact on the destination
\* that the mover now occupies, the flag is cleared and the mover scores the amount.
CaptureRule(g, h, e, amount) ==
    IF g.is_artefact[e.eid] /\ h.unit_owner[e.eid] = g.turn
    THEN /\ h.is_artefact = [g.is_artefact EXCEPT ![e.eid] = FALSE]
         /\ h.scores = [g.scores EXCEPT ![g.turn] = @ + amount]
    ELSE NoScoring(g, h)

\* A tank move onto an opponent's stack empties the destination and nothing else.
RangedRule(g, h, e) ==
    (g.action_type_code = MOVE_TANK /\ g.unit_owner[e.eid] = 1 - g.turn) =>
        /\ NoScoring(g, h)
        /\ h.unit_owner = [g.unit_owner EXCEPT ![e.eid] = -1]
        /\ h.unit_kind = [g.unit_kind EXCEPT ![e.eid] = 0]
        /\ h.unit_count = [g.unit_count EXCEPT ![e.eid] = 0]

MoveRules(g, h, e, amount) == CaptureRule(g, h, e, amount) /\ RangedRule(g, h, e)

\* C9: a move that brings the mover's units onto an artefact cell clears that flag
\* and adds exactly the moved amount to the mover's score; a tank attack on an
\* opponent's stack only empties the destination; no other step changes a score
\* or an artefact flag.
C9_ArtefactCapture ==
    [][IF MoveApplied(game, last')
       THEN MoveRules(game, game', EdgeOfIndex(game, last'.index, last'.m),
                      AmountOfIndex(game, last'.index, last'.m))
       ELSE NoScoring(game, game')]_vars

\* Two bots have moved onto an artefact cell in one move and scored two points.
C9_TwoPointCapture ==
    /\ last.ret = "true"
    /\ last.index >= MoveBase(game)
    /\ AmountOfIndex(game, last.index, last.m) = 2
    /\ game.scores[1] = 2
    /\ ~game.is_artefact[EdgeOfIndex(game, last.index, last.m).eid]
    /\ EdgeOfIndex(game, last.index, last.m).eid \in {66, 67}

NoArtefactLeft(g) == \A c \in DOMAIN g.is_artefact : ~g.is_artefact[c]

LeaderOrMover(g, mover) ==
    IF g.scores[0] > g.scores[1] THEN 0
    ELSE IF g.scores[1] > g.scores[0] THEN 1
    ELSE mover

\* C10: a board mutation of the action phase that leaves no artefact on the board
\* and the mover's score below 9 ends the game in the same step; the winner is the
\* player with the higher score, the mover on equal scores, whatever
\* actions_remaining and turn_count are.
C10_ArtefactExhaustion ==
    [][(/\ game.state_code = PERFORM_ACTIONS
        /\ last'.ret = "true"
        /\ NoArtefactLeft(game')
        /\ game'.scores[game.turn] < WIN_SCORE) =>
           /\ game'.state_code = GAME_OVER
           /\ game'.winner = LeaderOrMover(game', game.turn)]_vars

\* The last artefact was taken by the last action of a turn at the turn limit,
\* the scores are equal, and the mover has won.
C10_TieAtTurnLimit ==
    /\ game.state_code = GAME_OVER
    /\ last.ret = "true"
    /\ NoArtefactLeft(game)
    /\ game.scores[0] = game.scores[1]
    /\ game.scores[game.turn] < WIN_SCORE
    /\ game.winner = game.turn
    /\ game.actions_remaining = 1
    /\ game.turn_count >= game.max_turns

(***************************************************************************)
(* The end of a turn                                                       *)
(***************************************************************************)
\* The board and satellites of h, seen by the player and action of g: what the
\* enumerator is asked after g's step, before any handover.
ContinuationOf(g, h) == [h EXCEPT !.turn = g.turn, !.action_type_code = g.action_type_code]

NoContinuation(g, h, m) == legal_in_perform(ContinuationOf(g, h), m).out = <<>>

\* The win check fires on the board a mutation left.
WinCheckFires(g, h) == h.scores[g.turn] >= WIN_SCORE \/ NoArtefactLeft(h)

\* The accepted step from g to h ends the turn of g's mover: after a direction
\* choice nothing is legal, or after a board mutation that did not win the last
\* action was spent or nothing is legal.
TurnEnds(g, h, l) ==
    /\ l.ret = "true"
    /\ \/ g.state_code = CHOOSE_DIRECTION /\ NoContinuation(g, h, l.m)
       \/ /\ g.state_code = PERFORM_ACTIONS
          /\ ~WinCheckFires(g, h)
          /\ (g.actions_remaining - 1 <= 0 \/ NoContinuation(g, h, l.m))

HigherScoreOrDraw(g) ==
    IF g.scores[0] > g.scores[1] THEN 0
    ELSE IF g.scores[1] > g.scores[0] THEN 1
    ELSE -1

\* C11: whenever a turn ends while turn_count >= max_turns and the win check did
\* not fire, the phase becomes GameOver and the winner is the player with the
\* strictly higher score, or the draw (-1) on equal scores, never the mover on a
\* tie; the mover and turn_count are not changed by the step.
C11_TurnLimitEnd ==
    [][(TurnEnds(game, game', last') /\ game.turn_count >= game.max_turns) =>
           /\ game'.state_code = GAME_OVER
           /\ game'.winner = HigherScoreOrDraw(game')
           /\ game'.turn = game.turn
           /\ game'.turn_count = game.turn_count]_vars

\* A turn that ended at the turn limit on equal scores with artefacts left: a draw.
C11_DrawAtTurnLimit ==
    /\ game.state_code = GAME_OVER
    /\ last.ret = "true"
    /\ ~NoArtefactLeft(game)
    /\ game.scores[0] = game.scores[1]
    /\ game.scores[game.turn] < WIN_SCORE
    /\ game.turn_count >= game.max_turns
    /\ game.winner = -1

(***************************************************************************)
(* The score win                                                           *)
(***************************************************************************)
BothBelowWinScore(g) == g.scores[0] < WIN_SCORE /\ g.scores[1] < WIN_SCORE

\* C12: an accepted board mutation of the action phase that leaves the mover's
\* score at 9 or more ends the game in the same step with the mover as winner,
\* before actions_remaining is decremented and before any handover (mover and
\* turn_count stay); and in every state that is not GameOver both scores are
\* below 9 (every start game has both scores below 9).
C12_ScoreWin ==
    /\ [](game.state_code # GAME_OVER => BothBelowWinScore(game))
    /\ [][(/\ game.state_code = PERFORM_ACTIONS
           /\ last'.ret = "true"
           /\ game'.scores[game.turn] >= WIN_SCORE) =>
              /\ game'.state_code = GAME_OVER
              /\ game'.winner = game.turn
              /\ game'.actions_remaining = game.actions_remaining
              /\ game'.turn = game.turn
              /\ game'.turn_count = game.turn_count]_vars

\* A capture took the mover from 7 to 9 with actions and artefacts left: the mover
\* has won at once.
C12_WonAtNine ==
    /\ game.state_code = GAME_OVER
    /\ last.ret = "true"
    /\ game.scores[game.turn] = WIN_SCORE
    /\ game.winner = game.turn
    /\ game.actions_remaining >= 2
    /\ ~NoArtefactLeft(game)

(***************************************************************************)
(* The satellite choice                                                    *)
(***************************************************************************)
\* slot type -> action type: move_tank, move_bot, add_tank, add_bot
ActionTypeOfSlotType == <<MOVE_TANK, MOVE_BOT, ADD_TANK, ADD_BOT>>

ChargedSlots(g) == {s \in 0..(NUM_SATS - 1) : g.sat_charges[s] > 0}

\* What the claim says the instance is after slot s was chosen: six fields set,
\* every other field (mover, cells, scores, turn_count, the other charges, the
\* slot types) as before.
AfterChoosing(g, s) ==
    [g EXCEPT !.active_satellite_idx = s,
              !.action_type_code = ActionTypeOfSlotType[g.sat_type_codes[s] + 1],
              !.picked_up_charges = g.sat_charges[s],
              !.sat_charges = [i \in DOMAIN g.sat_charges |-> IF i = s THEN 0 ELSE g.sat_charges[i]],
              !.state_code = CHOOSE_DIRECTION]

\* C13: in ChooseSatellite the legal set is exactly the slots 0..5 with a positive
\* charge, and applying such a slot s sets active_satellite to s, action_type from
\* the slot's type, picked_up_charges to the slot's charge, the slot's charge to 0
\* and the phase to ChooseDirection, and changes nothing else.
C13_ChooseSatelliteFrame ==
    game.state_code = CHOOSE_SATELLITE =>
        \A m \in 1..MaxMove :
            /\ ~legal_action_indices(game, m).err
            /\ LegalSet(game, m) = ChargedSlots(game)
            /\ \A s \in ChargedSlots(game) :
                   apply_action_index(game, s, m) = Returned("true", AfterChoosing(game, s))

\* A charged slot has just been chosen.
C13_SlotChosen ==
    /\ game.state_code = CHOOSE_DIRECTION
    /\ last.ret = "true"
    /\ last.index \in 0..(NUM_SATS - 1)
    /\ game.active_satellite_idx = last.index
    /\ game.picked_up_charges >= 2
    /\ game.sat_charges[last.index] = 0

(***************************************************************************)
(* The direction choice                                                    *)
(***************************************************************************)
\* The number of the k dropped charges that land on slot i when the walk starts
\* at slot s and goes d (+1 or -1) slots per charge.
Landed(s, d, k, i) == Cardinality({j \in 1..k : (s + d * j) % NUM_SATS = i})

DirectionOfIndex(action_index) == IF action_index = 7 THEN 1 ELSE -1

CellsOf(g) == <<g.unit_owner, g.unit_kind, g.unit_count, g.is_artefact>>

\* C14: an accepted direction choice, index 7 (d = +1) or 6 (d = -1), with active
\* slot s and picked_up_charges k raises the charge of each slot i by the number
\* of j in 1..k with (s + d*j) mod 6 = i, saturating at 255 (k <= 5: the k
\* following slots gain 1 each and slot s stays 0; k >= 6: the walk wraps and slot
\* s gains too), and leaves the cells and the scores as they were.
C14_Distribution ==
    [][(game.state_code = CHOOSE_DIRECTION /\ last'.ret = "true") =>
           /\ last'.index \in {6, 7}
           /\ \A i \in 0..(NUM_SATS - 1) :
                  game'.sat_charges[i] =
                      Min(U8_MAX, game.sat_charges[i]
                                  + Landed(game.active_satellite_idx, DirectionOfIndex(last'.index),
                                           game.picked_up_charges, i))
           /\ CellsOf(game') = CellsOf(game)
           /\ game'.scores = game.scores]_vars

\* Seven charges were dropped from slot 0: the walk wrapped, slot 0 holds one
\* again, and the full slot beside it stayed at 255.
C14_WrappedAndSaturated ==
    /\ last.ret = "true"
    /\ last.index \in {6, 7}
    /\ game.active_satellite_idx = 0
    /\ game.picked_up_charges = 7
    /\ game.sat_charges[0] = 1
    /\ game.sat_charges[1] = U8_MAX
    /\ game.sat_charges[2] = 1

(***************************************************************************)
(* The move listing and the move indices                                   *)
(***************************************************************************)
LargestStack(g) ==
    CHOOSE x \in Range(g.unit_count) : \A y \in Range(g.unit_count) : y <= x

\* The moves the indices of a legal list decode to, in the list's order.
DecodedMoves(g, out, m) ==
    [i \in DOMAIN out |-> <<EdgeOfIndex(g, out[i], m).sid, EdgeOfIndex(g, out[i], m).eid,
                            AmountOfIndex(g, out[i], m)>>]

\* On arrays of n cells, with M at least the largest stack, both enumerators
\* answer and the triples of the listing are, element by element, the moves the
\* legal indices decode to.
ListingAgrees(n) ==
    (/\ last.ret = "listed"
     /\ ArrLen(game.unit_owner) = n
     /\ max_move_amount >= LargestStack(game)) =>
        /\ ~last.actions.err
        /\ ~last.legal.err
        /\ last.actions.out = DecodedMoves(game, last.legal.out, max_move_amount)

\* C15 as stated: generate_move_actions agrees with the index enumerator for
\* every board of 85 cells, mover and kind, when M is at least the largest stack.
C15_ListingAgreesOn85 == ListingAgrees(85)

\* C15, amended: generate_move_actions agrees with the index enumerator for every
\* board of 88 cells (the cells of the topology), mover and kind, when M is at
\* least the largest stack: the same (source, destination, amount) triples in the
\* same order as the moves decoded from the legal move indices.
C15_ListingAgrees == ListingAgrees(num_cells)

\* Both enumerators answered on an 88-cell board where a tank stack of 2 may
\* attack a lone opponent tank with amount 2 only, and may split onto empty cells.
C15_TankAttackListed ==
    /\ last.ret = "listed"
    /\ ArrLen(game.unit_owner) = num_cells
    /\ max_move_amount >= LargestStack(game)
    /\ ~last.actions.err
    /\ <<75, 76, 2>> \in Range(last.actions.out)
    /\ <<75, 76, 1>> \notin Range(last.actions.out)
    /\ <<75, 74, 1>> \in Range(last.actions.out)
    /\ game.unit_owner[76] = 1 - game.turn

(***************************************************************************)
(* The move-index codec                                                    *)
(***************************************************************************)
\* The index the claim gives edge number e and amount a on a board of n cells.
CodecIndex(n, e, a, m) == ADD_BASE + n + e * m + (a - 1)

\* The number of the directed edge from sid to eid: sources in row-major order,
\* each source's neighbours in list order, counted from 0.
EdgeNumber(sid, eid) ==
    (CHOOSE k \in DOMAIN edge_walk : edge_walk[k].sid = sid /\ edge_walk[k].eid = eid) - 1

\* The moves the mover of g may make with the kind of g's action, none above m
\* units: the listing of generate_move_actions, cut at m.
JudgedLegal(g, m) ==
    SelectSeq(generate_move_actions(g.unit_owner, g.unit_kind, g.unit_count, g.turn,
                                    req_kind_of(g.action_type_code), g.is_artefact).out,
              LAMBDA t : t[3] <= m)

CodecIndices(n, moves, m) ==
    [i \in DOMAIN moves |-> CodecIndex(n, EdgeNumber(moves[i][1], moves[i][2]), moves[i][3], m)]

OtherCellsKept(g, h, sid, eid) ==
    \A c \in DOMAIN g.unit_owner \ {sid, eid} :
        /\ h.unit_owner[c] = g.unit_owner[c]
        /\ h.unit_kind[c] = g.unit_kind[c]
        /\ h.unit_count[c] = g.unit_count[c]

\* Applying index i to g is accepted and is the move of a units from sid to eid:
\* a units leave sid and arrive on eid, or, when eid holds an opponent stack (a
\* tank attack), eid is emptied and the a tanks hold sid.
AppliesAsMove(g, i, m, sid, eid, a) ==
    LET r == apply_action_index(g, i, m) IN
    /\ r.ret = "true"
    /\ CellsOf(r.g) = CellsOf(apply_move(g, sid, eid, a).g)
    /\ IF g.unit_owner[eid] = 1 - g.turn
       THEN r.g.unit_count[eid] = 0 /\ r.g.unit_count[sid] = g.unit_count[sid]
       ELSE /\ r.g.unit_count[sid] = g.unit_count[sid] - a
            /\ r.g.unit_count[eid] = Min(U8_MAX, g.unit_count[eid] + a)
    /\ OtherCellsKept(g, r.g, sid, eid)

\* The round trip on boards of n cells: in the action phase of a move action the
\* legal indices are, in order, 8 + n + e*M + (a-1) for the legal (edge, amount)
\* pairs; applying each moves a units along edge e; and (index-8-n) div M and
\* (index-8-n) mod M + 1 give back e and a for every edge and every a in 1..M.
CodecRoundTrip(n, g, m, moves) ==
    /\ legal_action_indices(g, m).out = CodecIndices(n, moves, m)
    /\ \A j \in DOMAIN moves :
           AppliesAsMove(g, CodecIndex(n, EdgeNumber(moves[j][1], moves[j][2]), moves[j][3], m),
                         m, moves[j][1], moves[j][2], moves[j][3])
    /\ \A e \in 0..(num_edges - 1), a \in 1..m :
           /\ (CodecIndex(n, e, a, m) - ADD_BASE - n) \div m = e
           /\ ((CodecIndex(n, e, a, m) - ADD_BASE - n) % m) + 1 = a

InMovePhase(g) ==
    g.state_code = PERFORM_ACTIONS /\ g.action_type_code \in {MOVE_TANK, MOVE_BOT}

\* C16 as stated: the index of edge e and amount a is 8 + 85 + e*M + (a-1), it
\* decodes to the same edge and amount, and applying it moves a units along e.
C16_CodecRoundTripFrom93 ==
    InMovePhase(game) =>
        CodecRoundTrip(85, game, max_move_amount, JudgedLegal(game, max_move_amount))

\* C16, amended: the index the enumerator emits for directed edge number e and
\* amount a is 8 + 88 + e*M + (a-1), 88 being the number of cells;
\* apply_action_index decodes it to the same (source, destination) and the same
\* amount, so applying a legal move index moves exactly a units along exactly that
\* edge; distinct (edge, amount) pairs with 1 <= a <= M get distinct indices.
C16_CodecRoundTrip ==
    InMovePhase(game) =>
        CodecRoundTrip(num_cells, game, max_move_amount, JudgedLegal(game, max_move_amount))

\* A legal move index of amount 2 has just been applied with M = 2: two units
\* left the source for the destination of its edge.
C16_TwoUnitsMoved ==
    /\ last.ret = "true"
    /\ last.m = 2
    /\ last.index >= MoveBase(game)
    /\ (last.index - MoveBase(game)) % 2 = 1
    /\ game.unit_count[edge_walk[((last.index - MoveBase(game)) \div 2) + 1].eid] >= 2
    /\ game.unit_owner[edge_walk[((last.index - MoveBase(game)) \div 2) + 1].eid] = game.turn

(***************************************************************************)
(* The winner                                                              *)
(***************************************************************************)
\* C17: in every state that is not GameOver the winner is undetermined (-1, every
\* start game has it so); the winner changes only in the step in which the phase
\* becomes GameOver, and in GameOver it is player 0, player 1 or the draw (which
\* the field also writes -1) and no longer changes.
C17_WinnerOnlyAtEnd ==
    /\ [](game.state_code # GAME_OVER => game.winner = -1)
    /\ [](game.state_code = GAME_OVER => game.winner \in {0, 1, -1})
    /\ [][game'.winner # game.winner =>
              (game.state_code # GAME_OVER /\ game'.state_code = GAME_OVER)]_vars

\* The game has ended at the turn limit with player 1 ahead: player 1 is the
\* winner, named in the step that ended the game.
C17_WinnerNamedAtEnd ==
    /\ game.state_code = GAME_OVER
    /\ last.ret = "true"
    /\ game.winner = 1
    /\ game.scores[1] > game.scores[0]
    /\ game.scores[1] < WIN_SCORE

(***************************************************************************)
(* The active satellite                                                    *)
(***************************************************************************)
\* C18: active_satellite is a slot index 0..5 when the phase is ChooseDirection or
\* PerformActions, and none (-1) in every other phase, ChooseSatellite and
\* GameOver, whether the game ended by the win check or by the turn limit.
C18_ActiveSatelliteByPhase ==
    IF game.state_code \in {CHOOSE_DIRECTION, PERFORM_ACTIONS}
    THEN game.active_satellite_idx \in 0..(NUM_SATS - 1)
    ELSE game.active_satellite_idx = -1

(***************************************************************************)
(* The turn limit                                                          *)
(***************************************************************************)
\* Every start game has turn_count 0 and max_turns never changes: the games that
\* started with turn_count below max_turns are those with max_turns above 0.
StartedBelowLimit(g) == g.max_turns > 0

\* C19 as stated: in every state reachable from an initial state with
\* turn_count < max_turns, turn_count >= max_turns implies phase = GameOver.
C19_OverAtTurnLimit ==
    (StartedBelowLimit(game) /\ game.turn_count >= game.max_turns) =>
        game.state_code = GAME_OVER

\* C19, amended: in every state reachable from an initial state with
\* turn_count < max_turns, turn_count <= max_turns; once turn_count has reached
\* max_turns the turn in progress is the last: no step changes the mover or
\* turn_count any more, and the step that ends that turn ends the game.
C19_LastTurnAtLimit ==
    /\ [](game.turn_count <= game.max_turns)
    /\ [][game.turn_count >= game.max_turns =>
              /\ game'.turn = game.turn
              /\ game'.turn_count = game.turn_count
              /\ TurnEnds(game, game', last') => game'.state_code = GAME_OVER]_vars

\* Player 0 is acting in a turn that began with turn_count = max_turns, in a game
\* that started below the limit.
C19_PlayingAtLimit ==
    /\ StartedBelowLimit(game)
    /\ game.turn_count = game.max_turns
    /\ game.state_code = PERFORM_ACTIONS
    /\ game.turn = 0
    /\ last.ret = "true"

(***************************************************************************)
(* The handover                                                            *)
(***************************************************************************)
\* What the claim says the instance is after the turn of g's mover was handed
\* over; h is the instance the step produced, whose cells, scores and satellites
\* the handover does not touch.
HandedOver(g, h) ==
    [h EXCEPT !.turn = 1 - g.turn,
              !.turn_count = IF 1 - g.turn = 0 THEN g.turn_count + 1 ELSE g.turn_count,
              !.state_code = CHOOSE_SATELLITE,
              !.active_satellite_idx = -1,
              !.action_type_code = 0,
              !.actions_remaining = 0,
              !.picked_up_charges = 0]

\* C20: whenever a turn ends without the game ending (turn_count < max_turns, no
\* win), the mover flips, turn_count grows by exactly 1 if the new mover is
\* player 0 and stays if it is player 1, the phase is ChooseSatellite, and
\* active_satellite, action_type, actions_remaining and picked_up_charges are
\* cleared (-1, 0, 0, 0); turn_count changes in no other step.
C20_TurnHandover ==
    [][/\ (TurnEnds(game, game', last') /\ game.turn_count < game.max_turns) =>
              /\ game' = HandedOver(game, game')
              /\ game'.winner = -1
       /\ game'.turn_count # game.turn_count =>
              /\ TurnEnds(game, game', last')
              /\ game.turn_count < game.max_turns
              /\ game.turn = 1
              /\ game'.turn = 0]_vars

\* Player 1's turn has just ended below the turn limit: player 0 is to choose a
\* satellite, turn_count has grown to 1, and the turn's fields are cleared.
C20_RoundCounted ==
    /\ last.ret = "true"
    /\ last.index >= ADD_BASE
    /\ game.state_code = CHOOSE_SATELLITE
    /\ game.turn = 0
    /\ game.turn_count = 1
    /\ game.active_satellite_idx = -1
    /\ game.actions_remaining = 0

(***************************************************************************)
(* The phase cycle                                                         *)
(***************************************************************************)
\* The phase and mover an accepted step may lead to from g.
PhaseCycleStep(g, h) ==
    /\ g.state_code = CHOOSE_SATELLITE =>
           h.state_code = CHOOSE_DIRECTION /\ h.turn = g.turn
    /\ g.state_code = CHOOSE_DIRECTION =>
           \/ h.state_code = PERFORM_ACTIONS /\ h.turn = g.turn
           \/ h.state_code = CHOOSE_SATELLITE /\ h.turn = 1 - g.turn
           \/ h.state_code = GAME_OVER
    /\ g.state_code = PERFORM_ACTIONS =>
           \/ /\ h.state_code = PERFORM_ACTIONS
              /\ h.turn = g.turn
              /\ h.actions_remaining = g.actions_remaining - 1
           \/ h.state_code = CHOOSE_SATELLITE /\ h.turn = 1 - g.turn
           \/ h.state_code = GAME_OVER

\* C21: every accepted apply_action_index follows the cycle ChooseSatellite ->
\* ChooseDirection -> PerformActions -> (PerformActions with one action less, or
\* ChooseSatellite of the other mover, or GameOver); the mover changes only in a
\* step into ChooseSatellite; and in PerformActions
\* 1 <= actions_remaining <= picked_up_charges.
C21_PhaseOrder ==
    /\ [](game.state_code = PERFORM_ACTIONS =>
              (1 <= game.actions_remaining
               /\ game.actions_remaining <= game.picked_up_charges))
    /\ [][/\ last'.ret = "true" => PhaseCycleStep(game, game')
          /\ game'.turn # game.turn => game'.state_code = CHOOSE_SATELLITE]_vars

\* A board action has just been applied and the turn goes on with one action
\* less than were picked up.
C21_ActionCountedDown ==
    /\ game.state_code = PERFORM_ACTIONS
    /\ last.ret = "true"
    /\ last.index >= ADD_BASE
    /\ game.picked_up_charges >= 2
    /\ game.actions_remaining = game.picked_up_charges - 1

(***************************************************************************)
(* The start hexes                                                         *)
(***************************************************************************)
\* No cell flagged as a player's start hex is owned by the other player.
NoIntruder(g) ==
    \A c \in DOMAIN g.unit_owner :
        /\ g.is_p0_start[c] => g.unit_owner[c] # 1
        /\ g.is_p1_start[c] => g.unit_owner[c] # 0

StartCells(g) == {c \in DOMAIN g.unit_owner : g.is_p0_start[c] \/ g.is_p1_start[c]}

\* The indices that aim at a start hex: the adds on it and the moves along the
\* edges into it, with every amount up to m.
StartHexIndices(g, m) ==
    {ADD_BASE + c : c \in StartCells(g)}
        \cup {MoveBase(g) + edge_walk[k].ord * m + (a - 1) :
                 k \in {j \in DOMAIN edge_walk : edge_walk[j].eid \in StartCells(g)},
                 a \in 1..m}

\* C22: from a state in which no start hex is owned by the other player (start
\* flags on cells 3, 4 and 83, 84) no call leads to a state in which one is:
\* neither an add on a start hex nor a move or merge into one, whatever index
\* aimed at a start hex is tried, nor any step that is taken.
C22_StartHexesForbidden ==
    /\ [](NoIntruder(game) =>
              \A i \in StartHexIndices(game, max_move_amount) :
                  NoIntruder(apply_action_index(game, i, max_move_amount).g))
    /\ [][NoIntruder(game) => NoIntruder(game')]_vars

\* Player 0 is moving tanks from cell 75, beside the empty start hex 84 of
\* player 1, and the move 75 -> 84 is refused.
C22_MoveOntoStartRefused ==
    /\ NoIntruder(game)
    /\ game.state_code = PERFORM_ACTIONS
    /\ game.action_type_code = MOVE_TANK
    /\ game.turn = 0
    /\ game.unit_owner[75] = 0
    /\ game.unit_kind[75] = TANK
    /\ game.unit_owner[84] = -1
    /\ game.is_p1_start[84]
    /\ apply_action_index(game, CodecIndex(num_cells, EdgeNumber(75, 84), 1, max_move_amount),
                          max_move_amount).ret = "false"

(***************************************************************************)
(* Add enumeration and add application                                     *)
(***************************************************************************)
InAddPhase(g) ==
    g.state_code = PERFORM_ACTIONS /\ g.action_type_code \in {ADD_TANK, ADD_BOT}

AddApplies(g, c, m) == apply_action_index(g, ADD_BASE + c, m).ret = "true"

\* C23: in the action phase of an add action with the mover's total below 20,
\* index 8+cell is in the legal set if and only if applying it succeeds, for every
\* cell; and a cell the mover owns with a tank is a legal add_tank target whose
\* count the add raises by 1, whatever its artefact and start flags are.
C23_AddPredicatesAgree ==
    (InAddPhase(game) /\ OwnedUnits(game, game.turn) < ARMY_CAP) =>
        \A c \in DOMAIN game.unit_owner :
            /\ (ADD_BASE + c \in LegalSet(game, max_move_amount))
                   <=> AddApplies(game, c, max_move_amount)
            /\ (/\ game.action_type_code = ADD_TANK
                /\ game.unit_owner[c] = game.turn
                /\ game.unit_kind[c] = TANK) =>
                   /\ ADD_BASE + c \in LegalSet(game, max_move_amount)
                   /\ apply_action_index(game, ADD_BASE + c, max_move_amount).g.unit_count[c]
                          = game.unit_count[c] + 1

(***************************************************************************)
(* No deadlock                                                             *)
(***************************************************************************)
\* C24: in every state that is not GameOver (every start game holds at least one
\* charge, and every call passes the same M >= 1) legal_action_indices(M) is not
\* empty: in ChooseSatellite some slot has a charge, in ChooseDirection 6 and 7
\* are legal, and PerformActions is entered or kept only with a legal action of
\* the current action type.
C24_NoDeadlock ==
    game.state_code # GAME_OVER =>
        /\ ~legal_action_indices(game, max_move_amount).err
        /\ LegalSet(game, max_move_amount) # {}
        /\ game.state_code = CHOOSE_SATELLITE => ChargedSlots(game) # {}
        /\ game.state_code = CHOOSE_DIRECTION => LegalSet(game, max_move_amount) = {6, 7}
        /\ game.state_code = PERFORM_ACTIONS =>
               \E i \in LegalSet(game, max_move_amount) : i >= ADD_BASE

\* An add has just brought the mover's army to the cap with an action left: the
\* turn was ended at once, with no add left to make.
C24_TurnEndedEarly ==
    /\ last.ret = "true"
    /\ last.index >= ADD_BASE
    /\ game.state_code # PERFORM_ACTIONS
    /\ game.action_type_code = ADD_TANK
    /\ game.actions_remaining >= 1
    /\ OwnedUnits(game, game.turn) = ARMY_CAP

(***************************************************************************)
(* The charges                                                             *)
(***************************************************************************)
SumOfCharges(g) ==
    LET upto[i \in 0..NUM_SATS] == IF i = 0 THEN 0 ELSE upto[i - 1] + g.sat_charges[i - 1]
    IN  upto[NUM_SATS]

\* The charges in play: those on the slots, and in ChooseDirection those in hand.
ChargesInPlay(g) ==
    SumOfCharges(g) + (IF g.state_code = CHOOSE_DIRECTION THEN g.picked_up_charges ELSE 0)

\* Dropping the charges in hand in direction d would take a slot past 255.
Saturates(g, d) ==
    \E i \in 0..(NUM_SATS - 1) :
        g.sat_charges[i] + Landed(g.active_satellite_idx, d, g.picked_up_charges, i) > U8_MAX

SaturatingStep(g, l) ==
    g.state_code = CHOOSE_DIRECTION /\ l.ret = "true" /\ Saturates(g, DirectionOfIndex(l.index))

\* C25: as long as no slot saturates, no step changes the sum of the six charges
\* counted outside ChooseDirection, nor, in ChooseDirection, that sum plus
\* picked_up_charges; a step from PerformActions (a board action, with the
\* handover or game end it may bring) changes no charge, the end of the game
\* changes none afterwards, and the slot types never change.
C25_ChargeConservation ==
    [][/\ ~SaturatingStep(game, last') => ChargesInPlay(game') = ChargesInPlay(game)
       /\ game.state_code \in {PERFORM_ACTIONS, GAME_OVER} =>
              game'.sat_charges = game.sat_charges
       /\ game'.sat_type_codes = game.sat_type_codes]_vars

\* Two charges were picked up from a slot and dropped on the two next slots: the
\* slots hold two charges as before, none is in hand.
C25_TwoChargesDropped ==
    /\ last.ret = "true"
    /\ last.index \in {6, 7}
    /\ game.state_code = PERFORM_ACTIONS
    /\ game.picked_up_charges = 2
    /\ game.sat_charges[game.active_satellite_idx] = 0
    /\ SumOfCharges(game) = 2

(***************************************************************************)
(* Termination                                                             *)
(***************************************************************************)
\* The accepted calls a turn can hold at most: a satellite, a direction, and as
\* many board actions as a slot can give charges.
TurnSpan == U8_MAX + 3

\* The turns that can still begin after the one in progress.
TurnsLeft(g) == 2 * (g.max_turns - g.turn_count) + (1 - g.turn)

\* The accepted calls the turn in progress can still hold.
LeftInTurn(g) ==
    IF g.state_code = CHOOSE_SATELLITE THEN U8_MAX + 2
    ELSE IF g.state_code = CHOOSE_DIRECTION THEN U8_MAX + 1
    ELSE g.actions_remaining

\* A bound on the accepted calls still to come: 0 in GameOver.
Rank(g) ==
    IF g.state_code = GAME_OVER THEN 0
    ELSE 1 + TurnsLeft(g) * TurnSpan + LeftInTurn(g)

\* Some legal index of g is accepted.
CanGoOn(g, m) == \E i \in LegalSet(g, m) : apply_action_index(g, i, m).ret = "true"

\* C26: every sequence of accepted calls is finite: turn_count never exceeds
\* max_turns, and every accepted call lowers a bound on the calls still to come
\* (a turn is one satellite choice, one direction choice and at most
\* picked_up_charges board actions, and a turn that ends with
\* turn_count >= max_turns ends the game). And play cannot stop short of the end:
\* with no unit on an opposing start hex, every state that is not GameOver has a
\* legal index that is accepted. So a caller who applies a legal index whenever
\* one exists reaches GameOver after at most Rank calls.
C26_Termination ==
    /\ [](game.turn_count <= game.max_turns /\ Rank(game) >= 0)
    /\ []((NoIntruder(game) /\ game.state_code # GAME_OVER) => CanGoOn(game, max_move_amount))
    /\ [][last'.ret = "true" => Rank(game') < Rank(game)]_vars

\* A game that started below the turn limit has been played to its end, over the
\* turns of both players.
C26_PlayedToTheEnd ==
    /\ game.state_code = GAME_OVER
    /\ last.ret = "true"
    /\ game.max_turns >= 1
    /\ game.turn_count = game.max_turns
    /\ game.turn = 0

====
